---- MODULE Spec2Model ----
(***************************************************************************)
(* Byte Pair Encoding (src/src/bpe_implementation.py).                     *)
(*                                                                         *)
(* A Python str is a sequence of one-character strings.  A symbol (an      *)
(* element of a prepared word) is a Python str too, so it is a sequence of *)
(* characters: 'a' is <<"a">>, 'ab' is <<"a","b">> and the end-of-word     *)
(* token '</w>' is <<"<","/","w",">">>.  Concatenation of symbols is \o.   *)
(* A pair is a 2-tuple of symbols.  A Counter is the sequence of its       *)
(* <<key, count>> items in insertion order (dict order).                   *)
(***************************************************************************)
EXTENDS Integers, Sequences, FiniteSets, TLC

VARIABLES raw,         \* byte_pair_encoding: the argument corpus (list of str)
          num_merges,  \* byte_pair_encoding: the argument num_merges
          corpus,      \* byte_pair_encoding: corpus after line 74
          merges,      \* the merges list (training result, encode_word argument)
          step,        \* number of iterations of the for loop of line 77 started
          vocab,       \* main: result of build_bpe_vocab
          new_word,    \* encode_word: the argument word
          word,        \* encode_word: the local list word
          best_pair,   \* encode_word: the local best_pair
          pword,       \* one rewrite pass: the word given
          ppair,       \* one rewrite pass: the pair given
          pres,        \* one rewrite pass: the word returned
          ctab,        \* get_pair_counts(prepare_corpus(raw)) once computed
          pc           \* position in the program

vars == <<raw, num_merges, corpus, merges, step, vocab, new_word, word,
          best_pair, pword, ppair, pres, ctab, pc>>

(***************************************************************************)
(* Bounds of the model                                                     *)
(***************************************************************************)
MaxWordLen == 3
MaxWords == 2
MaxMerges == 4
MaxRules == 3
MaxSymbols == 3

Alphabet == {"a", "b"}

(***************************************************************************)
(* Program constants                                                       *)
(***************************************************************************)
EOW == <<"<", "/", "w", ">">>

DemoCorpus ==
  << <<"l","o","w">>, <<"l","o","w","e","r">>,
     <<"n","e","w","e","s","t">>, <<"w","i","d","e","s","t">> >>

DemoMerges == 10

DemoNewWord == <<"l","o","w","e","s","t">>

(***************************************************************************)
(* Inputs                                                                  *)
(***************************************************************************)
SeqsUpTo(S, n) == UNION {[1..k -> S] : k \in 0..n}

Words == SeqsUpTo(Alphabet, MaxWordLen)

\* a corpus whose words contain the characters of the end-of-word token
MarkerCorpus ==
  << <<"x","<","/","w",">","y">>, <<"<","/","w",">">>, <<"x">>, <<"x">>, <<"x">> >>

Corpora == SeqsUpTo(Words, MaxWords) \cup {DemoCorpus, MarkerCorpus}

MergeCounts == ((0 - 1)..MaxMerges) \cup {DemoMerges}

(***************************************************************************)
(* Helpers on Python values                                                *)
(***************************************************************************)
\* list(word): the list of the one-character strings of a str
list(w) == [i \in 1..Len(w) |-> <<w[i]>>]

\* ''.join(symbols)
RECURSIVE join(_)
join(ss) == IF ss = <<>> THEN <<>> ELSE Head(ss) \o join(Tail(ss))

\* zip(word, word[1:])
zip_adjacent(w) == [i \in 1..(Len(w) - 1) |-> <<w[i], w[i + 1]>>]

\* key in counter
HasKey(counter, key) == \E i \in 1..Len(counter) : counter[i][1] = key

\* Counter.update written with "pairs[key] = 1" for "pairs[key] += 1"
RECURSIVE CounterUpdateNoIncrement(_, _)
CounterUpdateNoIncrement(counter, items) ==
  IF items = <<>> THEN counter
  ELSE LET key == Head(items)
           next == IF HasKey(counter, key)
                   THEN counter
                   ELSE Append(counter, <<key, 1>>)
       IN CounterUpdateNoIncrement(next, Tail(items))

\* Counter.update(iterable): count each element, new keys appended in order
RECURSIVE CounterUpdate(_, _)
CounterUpdate(counter, items) ==
  IF items = <<>> THEN counter
  ELSE LET key == Head(items)
           next == IF HasKey(counter, key)
                   THEN [i \in 1..Len(counter) |->
                           IF counter[i][1] = key
                           THEN <<key, counter[i][2] + 1>>
                           ELSE counter[i]]
                   ELSE Append(counter, <<key, 1>>)
       IN CounterUpdate(next, Tail(items))

\* most_common keeping the last item of maximal count
most_common_last(counter) ==
  LET i == CHOOSE i \in 1..Len(counter) :
             /\ \A j \in 1..Len(counter) : counter[j][2] <= counter[i][2]
             /\ \A j \in (i + 1)..Len(counter) : counter[j][2] < counter[i][2]
  IN counter[i][1]

\* Counter.most_common(1)[0][0]: the first item of maximal count
most_common(counter) ==
  LET i == CHOOSE i \in 1..Len(counter) :
             /\ \A j \in 1..Len(counter) : counter[j][2] <= counter[i][2]
             /\ \A j \in 1..(i - 1) : counter[j][2] < counter[i][2]
  IN counter[i][1]

\* range(n + 1) for range(n)
InRangeInclusive(i, n) == i <= n

\* range(n): is the iteration numbered i (from 0) performed
InRange(i, n) == i < n

(***************************************************************************)
(* The functions of the module                                             *)
(***************************************************************************)
\* prepare_corpus forgetting the end-of-word token
prepare_corpus_bare(c) == [k \in 1..Len(c) |-> list(c[k])]

prepare_corpus(c) == [k \in 1..Len(c) |-> list(c[k]) \o <<EOW>>]

RECURSIVE PairCountsFrom(_, _, _)
PairCountsFrom(c, k, pairs) ==
  IF k > Len(c) THEN pairs
  ELSE PairCountsFrom(c, k + 1, CounterUpdate(pairs, zip_adjacent(c[k])))

get_pair_counts(c) == PairCountsFrom(c, 1, <<>>)

\* merge_pair advancing by 1 after a merge
RECURSIVE MergeWordFromOverlap(_, _, _)
MergeWordFromOverlap(w, pair, i) ==
  IF i > Len(w) THEN <<>>
  ELSE IF i < Len(w) /\ <<w[i], w[i + 1]>> = pair
       THEN <<pair[1] \o pair[2]>> \o MergeWordFromOverlap(w, pair, i + 1)
       ELSE <<w[i]>> \o MergeWordFromOverlap(w, pair, i + 1)

\* the while loop of merge_pair for one word, from index i (1-based)
RECURSIVE MergeWordFrom(_, _, _)
MergeWordFrom(w, pair, i) ==
  IF i > Len(w) THEN <<>>
  ELSE IF i < Len(w) /\ <<w[i], w[i + 1]>> = pair
       THEN <<pair[1] \o pair[2]>> \o MergeWordFrom(w, pair, i + 2)
       ELSE <<w[i]>> \o MergeWordFrom(w, pair, i + 1)

merge_pair(c, pair) == [k \in 1..Len(c) |-> MergeWordFrom(c[k], pair, 1)]

\* dict comprehension: a later rank overwrites an earlier one with the same key
build_bpe_vocab(m) ==
  [key \in {join(m[i]) : i \in 1..Len(m)} |->
     (CHOOSE i \in 1..Len(m) :
        /\ join(m[i]) = key
        /\ \A j \in 1..Len(m) : join(m[j]) = key => j <= i) - 1]

(***************************************************************************)
(* byte_pair_encoding                                                      *)
(***************************************************************************)
TrainVarsInit ==
  /\ corpus = <<>>
  /\ step = 0
  /\ vocab = <<>>

EncodeVarsInit ==
  /\ word = <<>>
  /\ best_pair = <<>>

PassVarsInit ==
  /\ pword = <<>>
  /\ ppair = <<>>
  /\ pres = <<>>
  /\ ctab = <<>>

Init ==
  /\ raw \in Corpora
  /\ num_merges \in MergeCounts
  /\ merges = <<>>
  /\ new_word = <<>>
  /\ TrainVarsInit
  /\ EncodeVarsInit
  /\ PassVarsInit
  /\ pc = "train_call"

\* lines 74-75
Prepare ==
  /\ pc = "train_call"
  /\ corpus' = prepare_corpus(raw)
  /\ merges' = <<>>
  /\ step' = 0
  /\ pc' = "loop"
  /\ UNCHANGED <<raw, num_merges, vocab, new_word, word, best_pair,
                 pword, ppair, pres, ctab>>

\* lines 77-83: one iteration that merges
TrainStep ==
  /\ pc = "loop"
  /\ InRange(step, num_merges)
  /\ LET pair_counts == get_pair_counts(corpus)
     IN /\ pair_counts # <<>>
        /\ LET best == most_common(pair_counts)
           IN /\ merges' = Append(merges, best)
              /\ corpus' = merge_pair(corpus, best)
  /\ step' = step + 1
  /\ UNCHANGED <<raw, num_merges, vocab, new_word, word, best_pair,
                 pword, ppair, pres, ctab, pc>>

\* lines 78-80: the table is empty, break
TrainBreak ==
  /\ pc = "loop"
  /\ InRange(step, num_merges)
  /\ get_pair_counts(corpus) = <<>>
  /\ pc' = "ret"
  /\ UNCHANGED <<raw, num_merges, corpus, merges, step, vocab, new_word,
                 word, best_pair, pword, ppair, pres, ctab>>

\* lines 77, 85: the range is exhausted, return
TrainReturn ==
  /\ pc = "loop"
  /\ ~InRange(step, num_merges)
  /\ pc' = "ret"
  /\ UNCHANGED <<raw, num_merges, corpus, merges, step, vocab, new_word,
                 word, best_pair, pword, ppair, pres, ctab>>

\* main, line 186
BuildVocab ==
  /\ pc = "ret"
  /\ vocab' = build_bpe_vocab(merges)
  /\ pc' = "vocab"
  /\ UNCHANGED <<raw, num_merges, corpus, merges, step, new_word,
                 word, best_pair, pword, ppair, pres, ctab>>

(***************************************************************************)
(* encode_word                                                             *)
(***************************************************************************)
\* line 141 forgetting the end-of-word token
encode_init_bare(w) == list(w)

\* line 141
encode_init(w) == list(w) \o <<EOW>>

\* lines 143-144
get_pairs(w) == {<<w[i], w[i + 1]>> : i \in 1..(Len(w) - 1)}

\* pair in merges
InMerges(pair, m) == \E k \in 1..Len(m) : m[k] = pair

\* merges.index(pair): the first position of the pair, from 0
index(m, pair) ==
  (CHOOSE k \in 1..Len(m) :
     m[k] = pair /\ \A j \in 1..(k - 1) : m[j] # pair) - 1

\* the key of line 151 with the order of the ranks reversed
RankKeyReversed(pair, m) ==
  IF InMerges(pair, m) THEN Len(m) - 1 - index(m, pair) ELSE Len(m)

\* the key of line 151; float('inf') is above every index and is
\* represented by Len(m)
RankKey(pair, m) == IF InMerges(pair, m) THEN index(m, pair) ELSE Len(m)

\* min(pairs, key=...): an element of least key; the iteration order of a
\* set of tuples of str is not fixed, so any element of least key may be
\* the one returned
MinPairs(pairs, m) ==
  {p \in pairs : \A q \in pairs : RankKey(p, m) <= RankKey(q, m)}

\* the rewrite of encode_word advancing by 1 after a merge
RECURSIVE RewriteFromOverlap(_, _, _)
RewriteFromOverlap(w, pair, i) ==
  IF i > Len(w) THEN <<>>
  ELSE IF i < Len(w) /\ SubSeq(w, i, i + 1) = pair
       THEN <<join(pair)>> \o RewriteFromOverlap(w, pair, i + 1)
       ELSE <<w[i]>> \o RewriteFromOverlap(w, pair, i + 1)

\* lines 156-164 for the word, from index i (1-based)
RECURSIVE RewriteFrom(_, _, _)
RewriteFrom(w, pair, i) ==
  IF i > Len(w) THEN <<>>
  ELSE IF i < Len(w) /\ SubSeq(w, i, i + 1) = pair
       THEN <<join(pair)>> \o RewriteFrom(w, pair, i + 2)
       ELSE <<w[i]>> \o RewriteFrom(w, pair, i + 1)

\* main, line 193 (the word of main, or a word of the corpus)
CallEncode ==
  /\ pc = "vocab"
  /\ \E w \in {raw[i] : i \in 1..Len(raw)} \cup {DemoNewWord} :
       new_word' = w
  /\ pc' = "enc_call"
  /\ UNCHANGED <<raw, num_merges, corpus, merges, step, vocab,
                 word, best_pair, pword, ppair, pres, ctab>>

\* line 141
EncodeEntry ==
  /\ pc = "enc_call"
  /\ word' = encode_init(new_word)
  /\ pc' = "enc_loop"
  /\ UNCHANGED <<raw, num_merges, corpus, merges, step, vocab, new_word,
                 best_pair, pword, ppair, pres, ctab>>

\* lines 147-149: no pair, break
EncodeBreakEmpty ==
  /\ pc = "enc_loop"
  /\ get_pairs(word) = {}
  /\ pc' = "enc_ret"
  /\ UNCHANGED <<raw, num_merges, corpus, merges, step, vocab, new_word,
                 word, best_pair, pword, ppair, pres, ctab>>

\* lines 147-154: the pair of least key is not a rule, break
EncodeBreakNoRule ==
  /\ pc = "enc_loop"
  /\ \E bp \in MinPairs(get_pairs(word), merges) :
       /\ ~InMerges(bp, merges)
       /\ best_pair' = bp
  /\ pc' = "enc_ret"
  /\ UNCHANGED <<raw, num_merges, corpus, merges, step, vocab, new_word,
                 word, pword, ppair, pres, ctab>>

\* lines 147-154: the pair of least key is a rule
EncodeSelect ==
  /\ pc = "enc_loop"
  /\ \E bp \in MinPairs(get_pairs(word), merges) :
       /\ InMerges(bp, merges)
       /\ best_pair' = bp
  /\ pc' = "enc_rewrite"
  /\ UNCHANGED <<raw, num_merges, corpus, merges, step, vocab, new_word,
                 word, pword, ppair, pres, ctab>>

\* lines 156-165
EncodeRewrite ==
  /\ pc = "enc_rewrite"
  /\ word' = RewriteFrom(word, best_pair, 1)
  /\ pc' = "enc_loop"
  /\ UNCHANGED <<raw, num_merges, corpus, merges, step, vocab, new_word,
                 best_pair, pword, ppair, pres, ctab>>

NextEncode ==
  EncodeEntry \/ EncodeBreakEmpty \/ EncodeBreakNoRule \/ EncodeSelect
  \/ EncodeRewrite

(***************************************************************************)
(* main: train, build the vocabulary, encode a word                        *)
(***************************************************************************)
Next ==
  \/ Prepare \/ TrainStep \/ TrainBreak \/ TrainReturn \/ BuildVocab
  \/ CallEncode \/ EncodeEntry \/ EncodeBreakEmpty \/ EncodeBreakNoRule
  \/ EncodeSelect \/ EncodeRewrite

Spec == Init /\ [][Next]_vars

(***************************************************************************)
(* encode_word called with any word and any list of merges                 *)
(***************************************************************************)
sa == <<"a">>
sb == <<"b">>

RulePairs ==
  { <<sa, sb>>, <<sb, sa>>, <<sa, sa>>, <<sa \o sa, sa>>, <<sb, EOW>>,
    <<sa \o sb, EOW>>, <<sa, sb \o EOW>> }

InitEncode ==
  /\ raw = <<>>
  /\ num_merges = 0
  /\ merges \in SeqsUpTo(RulePairs, MaxRules)
  /\ new_word \in Words
  /\ TrainVarsInit
  /\ EncodeVarsInit
  /\ PassVarsInit
  /\ pc = "enc_call"

SpecEncode == InitEncode /\ [][NextEncode]_vars

\* the loop of encode_word is not interrupted
FairSpecEncode == SpecEncode /\ WF_vars(NextEncode)

(***************************************************************************)
(* One rewrite pass on any word and any pair                               *)
(***************************************************************************)
PassSymbols == {sa, sb, sa \o sa, EOW}

InitPass ==
  /\ raw = <<>>
  /\ num_merges = 0
  /\ merges = <<>>
  /\ new_word = <<>>
  /\ TrainVarsInit
  /\ EncodeVarsInit
  /\ pword \in SeqsUpTo(PassSymbols, MaxSymbols)
  /\ ppair \in PassSymbols \X PassSymbols
  /\ pres = <<>>
  /\ ctab = <<>>
  /\ pc = "pass_call"

\* merge_pair on a corpus of the one word
PassMergePair ==
  /\ pc = "pass_call"
  /\ pres' = merge_pair(<<pword>>, ppair)[1]
  /\ pc' = "pass_merged"
  /\ UNCHANGED <<raw, num_merges, corpus, merges, step, vocab, new_word,
                 word, best_pair, pword, ppair, ctab>>

\* the rewrite of encode_word, lines 156-165
PassEncodeRewrite ==
  /\ pc = "pass_call"
  /\ pres' = RewriteFrom(pword, ppair, 1)
  /\ pc' = "pass_rewritten"
  /\ UNCHANGED <<raw, num_merges, corpus, merges, step, vocab, new_word,
                 word, best_pair, pword, ppair, ctab>>

NextPass == PassMergePair \/ PassEncodeRewrite

SpecPass == InitPass /\ [][NextPass]_vars

(***************************************************************************)
(* get_pair_counts(prepare_corpus(words)) on any list of words             *)
(***************************************************************************)
InitCount ==
  /\ raw \in Corpora
  /\ num_merges = 0
  /\ merges = <<>>
  /\ new_word = <<>>
  /\ TrainVarsInit
  /\ EncodeVarsInit
  /\ PassVarsInit
  /\ pc = "count_call"

CountPairs ==
  /\ pc = "count_call"
  /\ ctab' = get_pair_counts(prepare_corpus(raw))
  /\ pc' = "count_ret"
  /\ UNCHANGED <<raw, num_merges, corpus, merges, step, vocab, new_word,
                 word, best_pair, pword, ppair, pres>>

NextCount == CountPairs

SpecCount == InitCount /\ [][NextCount]_vars

(***************************************************************************)
(* Properties                                                              *)
(***************************************************************************)
Returned == pc \in {"ret", "vocab", "enc_call", "enc_loop", "enc_rewrite", "enc_ret"}

\* the symbol s ends with the end-of-word token
EndsWithMarker(s) ==
  /\ Len(s) >= Len(EOW)
  /\ SubSeq(s, Len(s) - Len(EOW) + 1, Len(s)) = EOW

\* the pair occurs as an adjacent pair of the word
Present(pair, w) == \E i \in 1..(Len(w) - 1) : <<w[i], w[i + 1]>> = pair

\* sum over the words of max(0, number of symbols - 1)
RECURSIVE PairTotal(_)
PairTotal(c) ==
  IF c = <<>> THEN 0
  ELSE (IF Len(Head(c)) > 1 THEN Len(Head(c)) - 1 ELSE 0) + PairTotal(Tail(c))

\* sum of the counts of a table
RECURSIVE CountSum(_)
CountSum(counter) ==
  IF counter = <<>> THEN 0 ELSE Head(counter)[2] + CountSum(Tail(counter))

\* the distinct adjacent pairs of a corpus
AllPairs(c) == UNION {get_pairs(c[k]) : k \in 1..Len(c)}

\* no word of the list has a character of the end-of-word token
NoMarkerChars(c) ==
  \A k \in 1..Len(c) : \A i \in 1..Len(c[k]) :
    \A j \in 1..Len(EOW) : c[k][i] # EOW[j]

\* C1: byte_pair_encoding called with a negative num_merges rejects the
\* call: it returns no (corpus, merges) result and performs no merge step.
C1_NegativeRejected == num_merges < 0 => (~Returned /\ merges = <<>>)

\* C2: for num_merges >= 0, len(merges) <= num_merges at every step of the
\* training loop and at return; at return len(merges) < num_merges only if
\* the pair frequency table of the current corpus is empty, otherwise
\* len(merges) = num_merges.
C2_MergeCountBound ==
  num_merges >= 0 =>
    /\ Len(merges) <= num_merges
    /\ (Returned /\ Len(merges) < num_merges) =>
         get_pair_counts(corpus) = <<>>

C2_Witness ==
  /\ pc = "ret"
  /\ Len(merges) >= 2
  /\ Len(merges) < num_merges

\* C3: in every iteration of encode_word the pair merged is a pair present
\* in the word that occurs in merges, and no present pair has a lower rank
\* (first index in merges).
C3_LowestRankMerged ==
  pc = "enc_rewrite" =>
    /\ Present(best_pair, word)
    /\ \E r \in 1..Len(merges) :
         /\ merges[r] = best_pair
         /\ \A k \in 1..Len(merges) : Present(merges[k], word) => r <= k

C3_Witness ==
  /\ pc = "enc_rewrite"
  /\ \E k \in 1..Len(merges) :
       /\ merges[k] # best_pair
       /\ Present(merges[k], word)
       /\ \E i \in 1..(Len(word) - 2) :
            /\ <<word[i], word[i + 1]>> = merges[k]
            /\ <<word[i + 1], word[i + 2]>> = best_pair

DemoRun == raw = DemoCorpus /\ num_merges = DemoMerges /\ Len(merges) >= 1

\* C4 (as stated): on the corpus of main with num_merges = 10 the pair
\* selected at the first training step is ('e','s') or ('s','t').
C4_FirstPairEsOrSt ==
  DemoRun => merges[1] \in {<< <<"e">>, <<"s">> >>, << <<"s">>, <<"t">> >>}

\* C4 (amended): on the corpus of main with num_merges = 10 the pair
\* selected at the first training step is ('l','o').
C4_FirstPairLo == DemoRun => merges[1] = << <<"l">>, <<"o">> >>

C4_Witness == DemoRun /\ pc = "loop" /\ step = 1

\* C5 (as stated): the number of entries of
\* get_pair_counts(prepare_corpus(words)) equals the sum over the prepared
\* words of max(0, wordLength - 1).
C5_TableLenIsPairTotal ==
  pc = "count_ret" => Len(ctab) = PairTotal(prepare_corpus(raw))

\* C5 (amended): the sum of the counts of the table equals the sum over the
\* prepared words of max(0, wordLength - 1); the number of entries is the
\* number of distinct adjacent pairs, which is at most that sum.
C5_CountSumIsPairTotal ==
  pc = "count_ret" =>
    /\ CountSum(ctab) = PairTotal(prepare_corpus(raw))
    /\ Len(ctab) = Cardinality(AllPairs(prepare_corpus(raw)))
    /\ Len(ctab) <= PairTotal(prepare_corpus(raw))

C5_Witness ==
  /\ pc = "count_ret"
  /\ Len(raw) = 2
  /\ Len(ctab) < CountSum(ctab)
  /\ Len(ctab) >= 2

\* C6: build_bpe_vocab of the merges returned by byte_pair_encoding has
\* exactly len(merges) entries, and the id of each merge rule is its rank.
C6_VocabSize ==
  pc = "vocab" =>
    /\ Cardinality(DOMAIN vocab) = Len(merges)
    /\ \A i \in 1..Len(merges) : vocab[join(merges[i])] = i - 1

\* C7: one rewrite pass (merge_pair, or the rewrite of encode_word) yields
\* a word with at most as many symbols, strictly fewer when the pair occurs
\* in the word; the characters are kept, no occurrence of the pair is left,
\* and occurrences are replaced left to right without overlap:
\* ['a','a','a'] with ('a','a') becomes ['aa','a'].
C7_PassShrinks ==
  pc \in {"pass_merged", "pass_rewritten"} =>
    /\ Len(pres) <= Len(pword)
    /\ Present(ppair, pword) => Len(pres) < Len(pword)
    /\ ~Present(ppair, pword) => pres = pword
    /\ join(pres) = join(pword)
    /\ ~Present(ppair, pres)
    /\ (pword = <<sa, sa, sa>> /\ ppair = <<sa, sa>>) => pres = <<sa \o sa, sa>>

C7_Witness ==
  /\ pc = "pass_merged"
  /\ pword = <<sa, sa, sa>>
  /\ ppair = <<sa, sa>>
  /\ pres = <<sa \o sa, sa>>

\* C8: encode_word terminates for every word and every merges list, and
\* returns at least one symbol, the last one ending with '</w>', the
\* concatenation of the symbols being the word followed by '</w>'.
C8_EncodeResult ==
  /\ [](pc = "enc_ret" =>
          /\ Len(word) >= 1
          /\ EndsWithMarker(word[Len(word)])
          /\ join(word) = new_word \o EOW)
  /\ <>(pc = "enc_ret")

C8_Witness ==
  /\ pc = "enc_ret"
  /\ Len(word) >= 2
  /\ word[Len(word)] # EOW

\* C9: for a corpus without characters of the marker and num_merges >= 0,
\* encode_word(corpus[i], merges) with the merges learned on the corpus is
\* the i-th word of the corpus returned by byte_pair_encoding.
C9_TrainEncodeAgree ==
  (pc = "enc_ret" /\ NoMarkerChars(raw) /\ num_merges >= 0) =>
    \A i \in 1..Len(raw) : raw[i] = new_word => word = corpus[i]

C9_Witness ==
  /\ pc = "enc_ret"
  /\ NoMarkerChars(raw)
  /\ Len(merges) >= 3
  /\ \E i \in 1..Len(raw) :
       /\ raw[i] = new_word
       /\ word = corpus[i]
       /\ Len(word) >= 2
       /\ Len(word) < Len(new_word)

\* C10: after prepare_corpus and after each merge step the corpus has as
\* many words as the input list, and the concatenation of the symbols of
\* word i is the i-th input word followed by '</w>'.
C10_CorpusPreserved ==
  pc # "train_call" =>
    /\ Len(corpus) = Len(raw)
    /\ \A i \in 1..Len(raw) : join(corpus[i]) = raw[i] \o EOW

C10_Witness ==
  /\ pc = "loop"
  /\ Len(merges) >= 2
  /\ Len(raw) = 2
  /\ raw[1] # raw[2]
  /\ Len(corpus[1]) < Len(raw[1]) + 1

====
